---- MODULE Spec2Model ----
(***************************************************************************)
(* CareNow triage service.                                                 *)
(*                                                                         *)
(* Two state machines share this module:                                   *)
(*   Spec            : one request through ai_service.analyze_symptom      *)
(*                     (route, retrieve, assemble, oracle, render or       *)
(*                     fall back);                                         *)
(*   RagSpec         : the process-wide RAG singleton of llm/rag_system.py *)
(*                     used by several callers (initialize_rag_system,     *)
(*                     get_rag_system, search_documents, RAGSystem.search).*)
(*                                                                         *)
(* The Korean string literals of the source are written in ASCII:          *)
(*   "eunggeupsil"  = the emergency-room tier  (urgency_level, line 207)   *)
(*   "oeraejinryo"  = the outpatient tier                  (line 208)      *)
(*   "jagagwanchal" = the self-observation tier            (line 209)      *)
(***************************************************************************)
EXTENDS Integers, Sequences, FiniteSets, TLC

VARIABLES
    \* ---- one request through analyze_symptom ----
    message,         \* request.message of the request being served
    pc,              \* position of the request: start, awaiting, done, raised
    routing,         \* route_patient(symptom_text)
    medical_context, \* get_relevant_knowledge(symptom_text), a text
    llm_state,       \* the oracle call: idle, pending, silent, answered
    chain_result,    \* what `await chain.ainvoke(...)` came back with
    path,            \* which return statement produced ret: none, success, fallback
    ret,             \* the dictionary analyze_symptom returned
    \* ---- the RAG singleton ----
    rag_instance,      \* _rag_instance: 0 is None, else the id of a RAGSystem
    cached_embeddings, \* _cached_embeddings is not None
    vectorstore,       \* RAGSystem id -> self.vectorstore (0 is None, else a handle)
    dir_exists,        \* VECTORSTORE_DIR.exists()
    collection,        \* entries of collection "emergency_docs": document -> chunks stored
    corpus,            \* the *.pdf files in RAG_DOCS_DIR
    tpc,               \* caller -> position
    top,               \* caller -> the operation it runs
    tforce,            \* caller -> force_recreate
    tself,             \* caller -> the RAGSystem it holds (self, or rag in search_documents)
    tdocs,             \* caller -> documents (local of initialize_rag_system)
    tres,              \* caller -> how its operation ended, and what a search returned
    n_created,         \* RAGSystem objects constructed by this process
    n_builds           \* runs of Chroma.from_documents so far

pvars == <<message, pc, routing, medical_context, llm_state, chain_result, path, ret>>
rvars == <<rag_instance, cached_embeddings, vectorstore, dir_exists, collection,
           corpus, tpc, top, tforce, tself, tdocs, tres, n_created, n_builds>>
vars == <<pvars, rvars>>

(***************************************************************************)
(* Texts.  A text is a sequence of runs <<c, n>>: n >= 1 copies of the      *)
(* character class c, where "x" is any character that is not a brace.       *)
(* Lengths are the real ones, so the source's 100 and 1500 keep their       *)
(* meaning.                                                                 *)
(***************************************************************************)
RECURSIVE TextLen(_)
TextLen(t) == IF t = <<>> THEN 0 ELSE t[1][2] + TextLen(Tail(t))

\* t[:k]
RECURSIVE Slice(_, _)
Slice(t, k) ==
    IF t = <<>> \/ k <= 0 THEN <<>>
    ELSE IF t[1][2] <= k THEN <<t[1]>> \o Slice(Tail(t), k - t[1][2])
         ELSE << <<t[1][1], k>> >>

\* t[k:]
RECURSIVE Drop(_, _)
Drop(t, k) ==
    IF t = <<>> \/ k <= 0 THEN t
    ELSE IF t[1][2] <= k THEN Drop(Tail(t), k - t[1][2])
         ELSE << <<t[1][1], t[1][2] - k>> >> \o Tail(t)

\* s.replace("{", "{{").replace("}", "}}")
RECURSIVE EscapeBraces(_)
EscapeBraces(t) ==
    IF t = <<>> THEN <<>>
    ELSE (IF t[1][1] \in {"{", "}"} THEN << <<t[1][1], 2 * t[1][2]>> >> ELSE <<t[1]>>)
         \o EscapeBraces(Tail(t))

\* adjacent runs of one class are one run
RECURSIVE Normalize(_)
Normalize(t) ==
    IF Len(t) < 2 THEN t
    ELSE IF t[1][1] = t[2][1]
         THEN Normalize(<< <<t[1][1], t[1][2] + t[2][2]>> >> \o Tail(Tail(t)))
         ELSE <<t[1]>> \o Normalize(Tail(t))


(***************************************************************************)
(* The prompt template.  ChatPromptTemplate.from_messages reads the system  *)
(* prompt as an f-string template: "{{" and "}}" are literal braces, a     *)
(* single "{" opens a replacement field that lasts to the next "}", and a  *)
(* single "}" outside a field, a "{" inside one and a field left open are  *)
(* errors.                                                                 *)
(***************************************************************************)
RECURSIVE ScanTemplate(_, _, _)
ScanTemplate(t, in_field, nvars) ==
    IF t = <<>> THEN [ok |-> ~in_field, nvars |-> nvars]
    ELSE LET c == t[1][1]
             n == t[1][2]
             rest == Tail(t)
         IN IF c = "x" THEN ScanTemplate(rest, in_field, nvars)
            ELSE IF ~in_field
                 THEN IF n % 2 = 0 THEN ScanTemplate(rest, FALSE, nvars)
                      ELSE IF c = "{" THEN ScanTemplate(rest, TRUE, nvars)
                           ELSE [ok |-> FALSE, nvars |-> nvars]
                 ELSE IF c = "{" THEN [ok |-> FALSE, nvars |-> nvars]
                      ELSE IF (n - 1) % 2 = 0
                           THEN ScanTemplate(rest, FALSE, nvars + 1)
                           ELSE [ok |-> FALSE, nvars |-> nvars + 1]

ParseTemplate(t) == ScanTemplate(Normalize(t), FALSE, 0)

\* what formatting a template that parsed with no replacement field writes for
\* it: "{{" and "}}" come out as one brace each, everything else as it is
RECURSIVE FormatLiteral(_)
FormatLiteral(t) ==
    IF t = <<>> THEN <<>>
    ELSE (IF t[1][1] \in {"{", "}"} THEN << <<t[1][1], t[1][2] \div 2>> >> ELSE <<t[1]>>)
         \o FormatLiteral(Tail(t))

\* the threshold of has_medical_context and has_context
ContextThreshold == 100
\* the slice medical_context[:1500]
KnowledgeBudget == 1500

\* parser.get_format_instructions(): prose around a JSON schema, whose braces nest
FormatInstructions ==
    << <<"x", 120>>, <<"{", 1>>, <<"x", 14>>, <<"{", 1>>, <<"x", 40>>,
       <<"}", 2>>, <<"x", 30>> >>

\* a field of the router's hint as it reads inside the prompt
HintText(field) == << <<"x", 8>> >>

has_medical_context(ctx) == TextLen(ctx) > ContextThreshold

\* the whole text, with no budget
knowledge_slice_NoBudget(ctx) == ctx

\* medical_context[:1500], the text put between the tags of rag_section
knowledge_slice(ctx) == Slice(ctx, KnowledgeBudget)

\* the opening tag line of rag_section, and what follows the knowledge: the
\* closing tag and the two sentences asking the oracle to use it
RagOpen == << <<"x", 12>> >>
RagClose == << <<"x", 70>> >>

rag_section(ctx) ==
    IF has_medical_context(ctx)
    THEN RagOpen \o knowledge_slice(ctx) \o RagClose
    ELSE <<>>

\* system_prompt up to {rag_section}: role framing and the router's hint
prompt_head(hint) ==
    << <<"x", 60>> >>
    \o HintText(hint.primary_department)
    \o HintText(hint.urgency.label)
    \o HintText(hint.urgency.reason)

system_prompt(hint, ctx) ==
    prompt_head(hint)
    \o rag_section(ctx)
    \o << <<"x", 2400>> >>
    \o EscapeBraces(FormatInstructions)

\* the system message of chat_prompt, parsed as a template
chat_prompt(hint, ctx) == ParseTemplate(system_prompt(hint, ctx))

(***************************************************************************)
(* Results and rendering.  A display text is the sequence of the lines     *)
(* that "\n".join(parts) joins; a line is a tuple of its pieces.           *)
(***************************************************************************)
\* a dictionary is a record of fields, each [present, v]; an absent key has present = FALSE
Absent == [present |-> FALSE, v |-> ""]
AbsentList == [present |-> FALSE, v |-> <<>>]
Present(x) == [present |-> TRUE, v |-> x]

Tiers == {"eunggeupsil", "oeraejinryo", "jagagwanchal"}

\* the "emergency" key is missing from the mapping
map_urgency_level_NoEmergency(level) ==
    CASE level = "urgent" -> "oeraejinryo"
      [] level = "observation" -> "jagagwanchal"
      [] OTHER -> "jagagwanchal"

map_urgency_level(level) ==
    CASE level = "emergency" -> "eunggeupsil"
      [] level = "urgent" -> "oeraejinryo"
      [] level = "observation" -> "jagagwanchal"
      [] OTHER -> "jagagwanchal"

\* dict.get(key, default)
Get(d, key, default) == IF d[key].present THEN d[key].v ELSE default

\* ', '.join(depts)
RECURSIVE JoinComma(_)
JoinComma(s) ==
    IF s = <<>> THEN <<>>
    ELSE IF Len(s) = 1 THEN <<s[1]>>
         ELSE <<s[1], ", ">> \o JoinComma(Tail(s))

Bullets(items) == [i \in 1..Len(items) |-> <<"bullet", items[i]>>]

BlankLine == <<"">>
Disclaimer == <<"disclaimer">>

ResponseEmoji(level) ==
    CASE level = "eunggeupsil" -> "red"
      [] level = "oeraejinryo" -> "yellow"
      [] level = "jagagwanchal" -> "green"
      [] OTHER -> "bulb"

format_response(analysis) ==
    LET level == Get(analysis, "urgency_level", "jagagwanchal")
        depts == Get(analysis, "departments", <<>>)
        actions == Get(analysis, "immediate_actions", <<>>)
        precautions == Get(analysis, "precautions", <<>>)
    IN  << <<Get(analysis, "friendly_message", "analysis_done")>>, BlankLine,
           <<"urgency", ResponseEmoji(level), level>>,
           <<"sub", Get(analysis, "urgency_reason", "")>>, BlankLine >>
        \o (IF depts # <<>>
            THEN << <<"departments_header">>, <<"sub">> \o JoinComma(depts), BlankLine >>
            ELSE <<>>)
        \o (IF actions # <<>>
            THEN << <<"actions_header">> >> \o Bullets(actions) \o <<BlankLine>>
            ELSE <<>>)
        \o (IF precautions # <<>>
            THEN << <<"precautions_header">> >> \o Bullets(precautions) \o <<BlankLine>>
            ELSE <<>>)
        \o <<Disclaimer>>

FallbackEmoji(level) ==
    CASE level = "emergency" -> "red"
      [] level = "urgent" -> "yellow"
      [] level = "observation" -> "green"
      [] OTHER -> "bulb"

format_fallback_response(hint, ctx) ==
    LET urgency == hint.urgency
        dept == hint.primary_department
        has_context == TextLen(ctx) > ContextThreshold
    IN  << <<"analysis_done">>, BlankLine,
           <<"urgency", FallbackEmoji(urgency.level), urgency.label>>,
           <<"sub", urgency.reason>>, BlankLine,
           <<"departments_header">>, <<"sub", dept>>, BlankLine,
           <<"actions_header">>, <<"bullet", urgency.action>> >>
        \o (IF has_context THEN << <<"bullet", "use_knowledge_base">> >> ELSE <<>>)
        \o << <<"bullet", "observe_and_visit_if_worse">>, BlankLine,
              <<"precautions_header">>,
              <<"bullet", "watch_symptom_changes">>,
              <<"bullet", "visit_if_worse_or_48h">>, BlankLine,
              Disclaimer >>


(***************************************************************************)
(* Inputs of one request.                                                  *)
(***************************************************************************)
\* longest list the oracle's output carries
MaxItems == 3

DepartmentPool == <<"dept1", "dept2", "dept3", "dept4", "dept5">>
ActionPool == <<"act1", "act2", "act3", "act4", "act5">>
PrecautionPool == <<"prec1", "prec2", "prec3", "prec4", "prec5">>

\* route_patient(symptom_text): the hints the router can return
RoutingHints ==
    { [primary_department |-> d,
       urgency |-> [level |-> l,
                    label |-> IF own_label THEN "hint_label" ELSE map_urgency_level(l),
                    reason |-> "hint_reason",
                    action |-> "hint_action"]] :
        d \in {"dept1", "dept_er"},
        l \in {"emergency", "urgent", "observation"},
        own_label \in BOOLEAN }

\* the messages a request may carry: the empty one and a description of symptoms
Messages == {"", "symptom"}

\* ChatRequest: message is declared `str` with no constraint, so every string,
\* the empty one included, passes validation
ChatRequestAccepts(msg) == msg \in Messages

\* the hints route_patient returns for a message: with no keyword matched (as in
\* the empty message) the lowest tier
RouteOf(msg) ==
    IF msg = "" THEN {h \in RoutingHints : h.urgency.level = "observation"}
    ELSE RoutingHints

\* get_relevant_knowledge(symptom_text): the texts retrieval can return
KnowledgeTexts ==
    { <<>>,
      << <<"x", 100>> >>,
      << <<"x", 101>> >>,
      << <<"x", 2000>> >>,
      << <<"{", 1>>, <<"x", 20>> >>,
      << <<"x", 60>>, <<"{", 1>>, <<"x", 60>> >>,
      << <<"x", 60>>, <<"}", 1>>, <<"x", 60>> >>,
      << <<"x", 60>>, <<"{", 1>>, <<"x", 7>>, <<"}", 1>>, <<"x", 60>> >>,
      << <<"x", 60>>, <<"{", 2>>, <<"x", 7>>, <<"}", 2>>, <<"x", 60>> >>,
      << <<"x", 1498>>, <<"{", 1>>, <<"x", 3>>, <<"}", 1>>, <<"x", 10>> >> }

Lists(pool, n) == {AbsentList} \cup {Present(SubSeq(pool, 1, k)) : k \in 0..n}

\* what chain.ainvoke can come back with: the oracle raises, the parser raises,
\* the parser returns JSON that is not an object, or it returns an object
OracleObjects ==
    [urgency_level : {Absent} \cup {Present(l) : l \in Tiers \cup {"eunggeup"}},
     urgency_reason : {Absent, Present("llm_reason")},
     departments : Lists(DepartmentPool, MaxItems + 1),
     immediate_actions : Lists(ActionPool, MaxItems),
     precautions : Lists(PrecautionPool, MaxItems - 1),
     friendly_message : {Absent, Present("llm_message")}]

NoObject ==
    [urgency_level |-> Absent, urgency_reason |-> Absent, departments |-> AbsentList,
     immediate_actions |-> AbsentList, precautions |-> AbsentList,
     friendly_message |-> Absent]

OracleOutcomes ==
    {[kind |-> k, obj |-> NoObject] : k \in {"error", "malformed", "not_object"}}
    \cup {[kind |-> "object", obj |-> o] : o \in OracleObjects}

NoRouting ==
    [primary_department |-> "", urgency |-> [level |-> "", label |-> "", reason |-> "",
                                             action |-> ""]]
NoOutcome == [kind |-> "none", obj |-> NoObject]
NoReturn == [response |-> <<>>, urgency_level |-> "", departments |-> <<>>]

(***************************************************************************)
(* analyze_symptom                                                         *)
(***************************************************************************)
\* the departments list is left empty
FallbackReturn_NoDepartments(hint, ctx) ==
    [response |-> format_fallback_response(hint, ctx),
     urgency_level |-> map_urgency_level(hint.urgency.level),
     departments |-> <<>>]

\* the except branch: the return statement of lines 197-201
FallbackReturn(hint, ctx) ==
    [response |-> format_fallback_response(hint, ctx),
     urgency_level |-> map_urgency_level(hint.urgency.level),
     departments |-> <<hint.primary_department>>]

\* the try branch after the chain returned `result`: the return of lines 184-188
SuccessReturn(result) ==
    [response |-> format_response(result),
     urgency_level |-> Get(result, "urgency_level", "jagagwanchal"),
     departments |-> Get(result, "departments", <<>>)]

\* does the try block raise for this outcome of the chain?
\* (the oracle or the parser raised, or result['urgency_level'] does)
TryRaises(o) ==
    \/ o.kind \in {"error", "malformed", "not_object"}
    \/ ~o.obj.urgency_level.present

PInit ==
    /\ message \in Messages
    /\ pc = "start"
    /\ routing = NoRouting
    /\ medical_context = <<>>
    /\ llm_state = "idle"
    /\ chain_result = NoOutcome
    /\ path = "none"
    /\ ret = NoReturn

\* Lines 54-179, up to the point where the coroutine first waits: routing,
\* retrieval and prompt assembly run outside the try block; formatting the
\* prompt is the first thing chain.ainvoke does, inside it.
Begin ==
    /\ pc = "start"
    /\ ChatRequestAccepts(message)
    /\ \E hint \in RouteOf(message), ctx \in KnowledgeTexts :
        /\ routing' = hint
        /\ medical_context' = ctx
        /\ IF ~chat_prompt(hint, ctx).ok
           THEN \* from_messages raises at line 169, before the try
                /\ pc' = "raised"
                /\ UNCHANGED <<llm_state, path, ret>>
           ELSE IF chat_prompt(hint, ctx).nvars > 0
                THEN \* ainvoke raises for the missing template variable
                     /\ pc' = "done"
                     /\ path' = "fallback"
                     /\ ret' = FallbackReturn(hint, ctx)
                     /\ UNCHANGED llm_state
                ELSE /\ pc' = "awaiting"
                     /\ llm_state' = "pending"
                     /\ UNCHANGED <<path, ret>>
    /\ UNCHANGED <<message, chain_result, rvars>>

\* The awaited chain completes with outcome o; lines 180-201.
ChainCompletes ==
    /\ pc = "awaiting"
    /\ llm_state = "pending"
    /\ \E o \in OracleOutcomes :
        /\ chain_result' = o
        /\ IF TryRaises(o)
           THEN /\ path' = "fallback"
                /\ ret' = FallbackReturn(routing, medical_context)
           ELSE /\ path' = "success"
                /\ ret' = SuccessReturn(o.obj)
    /\ pc' = "done"
    /\ llm_state' = "answered"
    /\ UNCHANGED <<message, routing, medical_context, rvars>>

\* The oracle never answers this call.  llm is built without a timeout
\* (lines 26-30) and ainvoke is awaited bare (line 179).
OracleSilent ==
    /\ pc = "awaiting"
    /\ llm_state = "pending"
    /\ llm_state' = "silent"
    /\ UNCHANGED <<message, pc, routing, medical_context, chain_result, path, ret,
                   rvars>>

\* the next request; requests share nothing
NextRequest ==
    /\ pc \in {"done", "raised"}
    /\ message' \in Messages
    /\ pc' = "start"
    /\ routing' = NoRouting
    /\ medical_context' = <<>>
    /\ llm_state' = "idle"
    /\ chain_result' = NoOutcome
    /\ path' = "none"
    /\ ret' = NoReturn
    /\ UNCHANGED rvars


(***************************************************************************)
(* The RAG singleton of llm/rag_system.py.  Several callers may be inside  *)
(* the module at once; no function of the module takes a lock, so a        *)
(* caller's steps are the statements between which another caller can run. *)
(***************************************************************************)
\* callers that may be inside rag_system.py at the same time
Callers == {"c1", "c2"}
\* runs of Chroma.from_documents the model follows
MaxBuilds == 2

\* the PDF files that may lie in RAG_DOCS_DIR; "broken" is one pdfplumber cannot open
Documents == {"doc1", "doc2", "broken"}
\* the contents of RAG_DOCS_DIR the model follows
Corpora == {{}, {"broken"}, {"doc1"}, {"doc1", "broken"}, {"doc1", "doc2"}, {"doc2"}}

Instances == 1..Cardinality(Callers)

NoResult == [status |-> "none", hits |-> {}]

RInit ==
    /\ rag_instance = 0
    /\ cached_embeddings = FALSE
    /\ vectorstore = [i \in Instances |-> 0]
    /\ dir_exists = FALSE
    /\ collection = [d \in Documents |-> 0]
    /\ corpus \in Corpora
    /\ tpc = [c \in Callers |-> "idle"]
    /\ top = [c \in Callers |-> "none"]
    /\ tforce = [c \in Callers |-> FALSE]
    /\ tself = [c \in Callers |-> 0]
    /\ tdocs = [c \in Callers |-> {}]
    /\ tres = [c \in Callers |-> NoResult]
    /\ n_created = 0
    /\ n_builds = 0

\* a Chroma object no RAGSystem refers to yet
NewHandle == CHOOSE h \in 1..(Cardinality(Callers) + 1) :
                \A i \in Instances : vectorstore[i] # h

\* the entries a Chroma object bound to persist_directory / "emergency_docs" serves
Entries == {d \in Documents : collection[d] > 0}

\* callers inside initialize_rag_system that may still run from_documents
MayBuild == {c \in Callers : tpc[c] \in {"i_check", "i_new", "i_load", "i_docs", "i_create"}}

Goto(c, where) == tpc' = [tpc EXCEPT ![c] = where]

\* main.chat, lines 63-101: what the endpoint answers when the body of its try
\* block ends with `status`: create_success_response when it returns,
\* create_error_response(code="CHAT_ERROR", reason=str(e)) for any exception
ChatResponse(status) ==
    IF status = "raised" THEN "error_response" ELSE "success_response"

\* the operation of caller c ends: normally, or with an exception leaving it;
\* an exception inside main.chat is caught by its handler
Finish(c, status, hits) ==
    /\ tpc' = [tpc EXCEPT ![c] = "done"]
    /\ tres' = [tres EXCEPT ![c] =
                    [status |-> IF top[c] = "chat" THEN ChatResponse(status) ELSE status,
                     hits |-> hits]]

\* A caller enters the module: initialize_rag_system(force) (startup_event,
\* rag_reload, or any other caller), get_rag_system(), search_documents(query),
\* RAGSystem.search on the instance get_rag_system returned earlier, or the
\* endpoint main.chat, which calls get_rag_system() and then rag.search when the
\* instance is not None (lines 69-71), as search_documents does.
Call(c) ==
    /\ tpc[c] = "idle"
    /\ \E op \in {"initialize", "get", "search_documents", "search", "chat"}, force \in BOOLEAN :
        /\ op # "initialize" => ~force
        /\ op = "search" => rag_instance # 0
        /\ (op = "initialize" \/ rag_instance = 0) =>
                n_builds + Cardinality(MayBuild) < MaxBuilds
        /\ top' = [top EXCEPT ![c] = op]
        /\ tforce' = [tforce EXCEPT ![c] = force]
        /\ tself' = [tself EXCEPT ![c] = IF op = "search" THEN rag_instance ELSE 0]
        /\ Goto(c, CASE op = "initialize" -> "i_check"
                     [] op = "search" -> "s_check"
                     [] OTHER -> "g_check")
    /\ UNCHANGED <<pvars, rag_instance, cached_embeddings, vectorstore, dir_exists,
                   collection, corpus, tdocs, tres, n_created, n_builds>>

\* get_rag_system that initializes on every call
GCheck_AlwaysInitialize(c) ==
    /\ tpc[c] = "g_check"
    /\ Goto(c, "i_check")
    /\ UNCHANGED <<pvars, rag_instance, cached_embeddings, vectorstore, dir_exists,
                   collection, corpus, top, tforce, tself, tdocs, tres, n_created,
                   n_builds>>

\* get_rag_system, line 224: if _rag_instance is None: initialize_rag_system()
GCheck(c) ==
    /\ tpc[c] = "g_check"
    /\ Goto(c, IF rag_instance = 0 THEN "i_check" ELSE "g_ret")
    /\ UNCHANGED <<pvars, rag_instance, cached_embeddings, vectorstore, dir_exists,
                   collection, corpus, top, tforce, tself, tdocs, tres, n_created,
                   n_builds>>

\* get_rag_system, line 227: return _rag_instance; search_documents goes on
\* with rag = that value
GReturn(c) ==
    /\ tpc[c] = "g_ret"
    /\ IF top[c] = "get"
       THEN /\ Finish(c, "ok", {})
            /\ UNCHANGED tself
       ELSE /\ tself' = [tself EXCEPT ![c] = rag_instance]
            /\ Goto(c, "s_check")
            /\ UNCHANGED tres
    /\ UNCHANGED <<pvars, rag_instance, cached_embeddings, vectorstore, dir_exists,
                   collection, corpus, top, tforce, tdocs, n_created, n_builds>>

\* initialize_rag_system, line 198: if _rag_instance is None
ICheck(c) ==
    /\ tpc[c] = "i_check"
    /\ Goto(c, IF rag_instance = 0 THEN "i_new" ELSE "i_load")
    /\ UNCHANGED <<pvars, rag_instance, cached_embeddings, vectorstore, dir_exists,
                   collection, corpus, top, tforce, tself, tdocs, tres, n_created,
                   n_builds>>

\* line 199: _rag_instance = RAGSystem().  __init__ calls get_embeddings, which
\* loads the model when none is cached; loading can raise, and nothing catches it.
INew(c) ==
    /\ tpc[c] = "i_new"
    /\ \E embeddings_load \in BOOLEAN :
        IF ~cached_embeddings /\ ~embeddings_load
        THEN /\ Finish(c, "raised", {})
             /\ UNCHANGED <<rag_instance, cached_embeddings, vectorstore, n_created>>
        ELSE /\ cached_embeddings' = TRUE
             /\ n_created' = n_created + 1
             /\ rag_instance' = n_created + 1
             /\ vectorstore' = [vectorstore EXCEPT ![n_created + 1] = 0]
             /\ Goto(c, "i_load")
             /\ UNCHANGED tres
    /\ UNCHANGED <<pvars, dir_exists, collection, corpus, top, tforce, tself, tdocs,
                   n_builds>>

\* the return of initialize_rag_system: to its caller, or back into get_rag_system
IReturn(c) ==
    IF top[c] = "initialize"
    THEN Finish(c, "ok", {})
    ELSE Goto(c, "g_ret") /\ UNCHANGED tres

\* line 202: if not force_recreate and _rag_instance.load_vectorstore().
\* load_vectorstore (136-161) binds a new Chroma object to the persisted
\* collection whenever VECTORSTORE_DIR exists; a failure to open it is caught.
ILoad(c) ==
    /\ tpc[c] = "i_load"
    /\ \E opens \in BOOLEAN :
        IF ~tforce[c] /\ dir_exists /\ opens
        THEN /\ vectorstore' = [vectorstore EXCEPT ![rag_instance] = NewHandle]
             /\ IReturn(c)
        ELSE /\ Goto(c, "i_docs")
             /\ UNCHANGED <<vectorstore, tres>>
    /\ UNCHANGED <<pvars, rag_instance, cached_embeddings, dir_exists, collection,
                   corpus, top, tforce, tself, tdocs, n_created, n_builds>>

\* an empty document list replaces the instance's index by none
IDocs_ClearsIndex(c) ==
    /\ tpc[c] = "i_docs"
    /\ LET documents == corpus \ {"broken"}
       IN /\ tdocs' = [tdocs EXCEPT ![c] = documents]
          /\ IF documents # {}
             THEN /\ tself' = [tself EXCEPT ![c] = rag_instance]
                  /\ Goto(c, "i_create")
                  /\ UNCHANGED <<tres, vectorstore>>
             ELSE /\ IReturn(c)
                  /\ vectorstore' = [vectorstore EXCEPT ![rag_instance] = 0]
                  /\ UNCHANGED tself
    /\ UNCHANGED <<pvars, rag_instance, cached_embeddings, dir_exists,
                   collection, corpus, top, tforce, n_created, n_builds>>

\* line 208: documents = _rag_instance.load_documents(); lines 210-217 when the
\* list is empty.  extract_text_from_pdf returns [] for a file it cannot read.
IDocs(c) ==
    /\ tpc[c] = "i_docs"
    /\ LET documents == corpus \ {"broken"}
       IN /\ tdocs' = [tdocs EXCEPT ![c] = documents]
          /\ IF documents # {}
             THEN /\ tself' = [tself EXCEPT ![c] = rag_instance]
                  /\ Goto(c, "i_create")
                  /\ UNCHANGED tres
             ELSE /\ IReturn(c)
                  /\ UNCHANGED tself
    /\ UNCHANGED <<pvars, rag_instance, cached_embeddings, vectorstore, dir_exists,
                   collection, corpus, top, tforce, n_created, n_builds>>

\* create_vectorstore, lines 114-132 up to the return of Chroma.from_documents:
\* VECTORSTORE_DIR is made, the chunks are embedded and added to the collection
\* "emergency_docs" of that directory.  Embedding can raise; nothing catches it.
ICreate(c) ==
    /\ tpc[c] = "i_create"
    /\ dir_exists' = TRUE
    /\ \E embeds \in BOOLEAN :
        IF embeds
        THEN /\ collection' = [d \in Documents |->
                                  collection[d] + (IF d \in tdocs[c] THEN 1 ELSE 0)]
             /\ n_builds' = n_builds + 1
             /\ Goto(c, "i_assign")
             /\ UNCHANGED tres
        ELSE /\ Finish(c, "raised", {})
             /\ UNCHANGED <<collection, n_builds>>
    /\ UNCHANGED <<pvars, rag_instance, cached_embeddings, vectorstore, corpus, top,
                   tforce, tself, tdocs, n_created>>

\* create_vectorstore, line 127: self.vectorstore = <the new Chroma object>,
\* then the return of lines 216-217
IAssign(c) ==
    /\ tpc[c] = "i_assign"
    /\ vectorstore' = [vectorstore EXCEPT ![tself[c]] = NewHandle]
    /\ IReturn(c)
    /\ UNCHANGED <<pvars, rag_instance, cached_embeddings, dir_exists, collection,
                   corpus, top, tforce, tself, tdocs, n_created, n_builds>>

\* search_documents line 234 (if rag) and RAGSystem.search line 166
\* (if not self.vectorstore: return [])
SCheck(c) ==
    /\ tpc[c] = "s_check"
    /\ IF tself[c] = 0 \/ vectorstore[tself[c]] = 0
       THEN Finish(c, "ok", {})
       ELSE Goto(c, "s_query") /\ UNCHANGED tres
    /\ UNCHANGED <<pvars, rag_instance, cached_embeddings, vectorstore, dir_exists,
                   collection, corpus, top, tforce, tself, tdocs, n_created, n_builds>>

\* RAGSystem.search lines 169-184: similarity_search over the collection; an
\* exception of the store is caught and answered with []
SQuery(c) ==
    /\ tpc[c] = "s_query"
    /\ \E store_answers \in BOOLEAN :
        Finish(c, "ok", IF store_answers THEN Entries ELSE {})
    /\ UNCHANGED <<pvars, rag_instance, cached_embeddings, vectorstore, dir_exists,
                   collection, corpus, top, tforce, tself, tdocs, n_created, n_builds>>

\* the caller has its answer (or its exception) and leaves
Leave(c) ==
    /\ tpc[c] = "done"
    /\ Goto(c, "idle")
    /\ top' = [top EXCEPT ![c] = "none"]
    /\ tforce' = [tforce EXCEPT ![c] = FALSE]
    /\ tself' = [tself EXCEPT ![c] = 0]
    /\ tdocs' = [tdocs EXCEPT ![c] = {}]
    /\ tres' = [tres EXCEPT ![c] = NoResult]
    /\ UNCHANGED <<pvars, rag_instance, cached_embeddings, vectorstore, dir_exists,
                   collection, corpus, n_created, n_builds>>

\* the operator changes the PDF files of RAG_DOCS_DIR while nobody is inside
ChangeCorpus ==
    /\ \A c \in Callers : tpc[c] = "idle"
    /\ \E docs \in Corpora :
        /\ docs # corpus
        /\ corpus' = docs
    /\ UNCHANGED <<pvars, rag_instance, cached_embeddings, vectorstore, dir_exists,
                   collection, tpc, top, tforce, tself, tdocs, tres, n_created,
                   n_builds>>

\* the process is restarted: module globals start over, the directories stay
Restart ==
    /\ \A c \in Callers : tpc[c] = "idle"
    /\ rag_instance # 0
    /\ rag_instance' = 0
    /\ cached_embeddings' = FALSE
    /\ vectorstore' = [i \in Instances |-> 0]
    /\ n_created' = 0
    /\ UNCHANGED <<pvars, dir_exists, collection, corpus, tpc, top, tforce, tself,
                   tdocs, tres, n_builds>>

RagInit == PInit /\ RInit /\ message = "symptom"

RagNext ==
    \/ \E c \in Callers :
        \/ Call(c) \/ GCheck(c) \/ GReturn(c)
        \/ ICheck(c) \/ INew(c) \/ ILoad(c) \/ IDocs(c) \/ ICreate(c) \/ IAssign(c)
        \/ SCheck(c) \/ SQuery(c) \/ Leave(c)
    \/ ChangeCorpus
    \/ Restart

RagSpec == RagInit /\ [][RagNext]_vars

\* The same module called sequentially, as the one event loop of main.py calls
\* it: a caller enters only while no other caller is inside.
SeqCall(c) ==
    /\ \A o \in Callers \ {c} : tpc[o] = "idle"
    /\ Call(c)

SeqNext ==
    \/ \E c \in Callers :
        \/ SeqCall(c) \/ GCheck(c) \/ GReturn(c)
        \/ ICheck(c) \/ INew(c) \/ ILoad(c) \/ IDocs(c) \/ ICreate(c) \/ IAssign(c)
        \/ SCheck(c) \/ SQuery(c) \/ Leave(c)
    \/ ChangeCorpus
    \/ Restart

SeqSpec == RagInit /\ [][SeqNext]_vars

Init == PInit /\ RInit /\ corpus = {}

Next == Begin \/ ChainCompletes \/ OracleSilent \/ NextRequest

Spec == Init /\ [][Next]_vars


(***************************************************************************)
(* Properties of one request.                                              *)
(***************************************************************************)
\* index of the first line of `text` whose first piece is `head`, 0 if none
HeaderAt(text, head) ==
    IF \E i \in 1..Len(text) : text[i][1] = head
    THEN CHOOSE i \in 1..Len(text) :
            /\ text[i][1] = head
            /\ \A j \in 1..(i - 1) : text[j][1] # head
    ELSE 0

\* number of bulleted lines that follow the section header `head` in `text`
SectionSize(text, head) ==
    LET h == HeaderAt(text, head)
    IN IF h = 0 THEN 0
       ELSE Cardinality({k \in (h + 1)..Len(text) :
                            \A j \in (h + 1)..k : text[j][1] = "bullet"})

\* fallback(hint) of the design: the result the except branch stands for, built
\* from the hint alone with the fixed sentences of format_fallback_response
FallbackResult(hint) ==
    [urgency_level |-> Present(map_urgency_level(hint.urgency.level)),
     urgency_reason |-> Present(hint.urgency.reason),
     departments |-> Present(<<hint.primary_department>>),
     immediate_actions |-> Present(<<hint.urgency.action, "observe_and_visit_if_worse">>),
     precautions |-> Present(<<"watch_symptom_changes", "visit_if_worse_or_48h">>),
     friendly_message |-> Present("analysis_done")]

\* C1: whatever the oracle did, the returned result has urgency_level in the
\* three tiers, 1 to 3 departments, and a response with at least 3 immediate
\* actions and at least 2 precautions.
C1_AlwaysSchemaValid ==
    (pc = "done" /\ message # "") =>
        /\ ret.urgency_level \in Tiers
        /\ Len(ret.departments) \in 1..3
        /\ SectionSize(ret.response, "actions_header") >= 3
        /\ SectionSize(ret.response, "precautions_header") >= 2

\* C2 as stated: when the router's hint is emergency, the returned
\* urgency_level is the emergency tier, whatever the oracle answered.
C2_EmergencyHintWins ==
    (pc = "done" /\ message # "" /\ routing.urgency.level = "emergency") =>
        ret.urgency_level = "eunggeupsil"

\* C2 as amended: when the router's hint is emergency, a request answered by
\* the fallback path returns the emergency tier, and a request whose oracle
\* output is accepted returns the urgency_level that output names.
C2_EmergencyHintWinsOnFallback ==
    (pc = "done" /\ routing.urgency.level = "emergency") =>
        /\ path \in {"fallback", "success"}
        /\ path = "fallback" => ret.urgency_level = "eunggeupsil"
        /\ path = "success" => ret.urgency_level = chain_result.obj.urgency_level.v

\* an emergency hint answered by the fallback path after the oracle failed
C2_Witness ==
    /\ pc = "done"
    /\ routing.urgency.level = "emergency"
    /\ path = "fallback"
    /\ chain_result.kind = "error"
    /\ ret.urgency_level = "eunggeupsil"

\* C3: when the oracle call fails, the returned display text is exactly
\* format_response applied to the fallback result built from the hint.
C3_FallbackRenderedBySameRenderer ==
    (pc = "done" /\ message # "" /\ path = "fallback") =>
        ret.response = format_response(FallbackResult(routing))

\* C4: no failure escapes analyze_symptom: a request never ends in a raised
\* exception.
C4_NothingEscapes == message # "" => pc # "raised"

\* C5: every request eventually completes, also when the oracle never answers:
\* a request that has not returned can always take a further step (a timeout
\* would be such a step).
C5_RequestTerminates == message # "" => (pc \in {"done", "raised"} \/ ENABLED Next)


(***************************************************************************)
(* Properties of the RAG singleton.                                        *)
(***************************************************************************)
\* the entries a search through the published instance is answered from
ServedEntries ==
    IF rag_instance # 0 /\ vectorstore[rag_instance] # 0 THEN Entries ELSE {}

\* C6: under every interleaving of concurrent first callers at most one
\* RAGSystem is created and at most one unforced build of the vector store is
\* running at a time.
C6_SingleInitializer ==
    /\ n_created <= 1
    /\ Cardinality({c \in Callers : tpc[c] \in {"i_create", "i_assign"} /\ ~tforce[c]}) <= 1

\* C7: the index is published by swapping the reference: as long as the
\* published instance keeps the same vectorstore object, the entries that object
\* serves to searches do not change.
C7_PublishedIndexImmutable ==
    [][(/\ rag_instance # 0
        /\ rag_instance' = rag_instance
        /\ vectorstore[rag_instance] # 0
        /\ vectorstore'[rag_instance] = vectorstore[rag_instance])
       => collection' = collection]_vars

\* C8: once an index has been built, whenever initialize_rag_system (startup
\* or reload) has returned, the index it leaves published is built from the
\* corpus as it is now.
C8_IndexFollowsCorpus ==
    \A c \in Callers :
        (/\ n_builds >= 1
         /\ tpc[c] = "done"
         /\ top[c] = "initialize"
         /\ tres[c].status = "ok"
         /\ \A o \in Callers \ {c} : tpc[o] = "idle")
        => ServedEntries = corpus \ {"broken"}

\* C9: RAGSystem.search and search_documents never raise, and answer [] when
\* the index has no entries or was never built.
C9_SearchNeverRaises ==
    \A c \in Callers :
        (tpc[c] = "done" /\ top[c] \in {"search", "search_documents"})
        => /\ tres[c].status = "ok"
           /\ ServedEntries = {} => tres[c].hits = {}

\* C10: initialize_rag_system never raises, whatever the corpus holds and
\* whether or not the embedding capability works.
C10_BuildNeverRaises ==
    \A c \in Callers :
        (tpc[c] = "done" /\ top[c] = "initialize") => tres[c].status = "ok"


(***************************************************************************)
(* Properties of the request boundary and of prompt assembly.              *)
(***************************************************************************)
\* C11: a request whose message is empty is rejected before any stage runs: it
\* never gets past the start of the pipeline (no routing, no retrieval, no
\* oracle call, no result).
C11_EmptyMessageRejected ==
    message = "" => (pc = "start" /\ routing = NoRouting /\ llm_state = "idle")


\* C12: the chat endpoint answers with an error response only for invalid
\* input: for a valid (non-empty) message no failure inside the pipeline ends
\* in an error response.
C12_ChatErrorOnlyForInvalidInput ==
    \A c \in Callers :
        (top[c] = "chat" /\ tpc[c] = "done" /\ message # "") =>
            tres[c].status # "error_response"


\* the knowledge text inside the system prompt: what stands between the opening
\* and the closing tag of rag_section, nothing when the prompt has no such section
KnowledgeInPayload(hint, ctx) ==
    LET prompt == system_prompt(hint, ctx)
        frame == TextLen(prompt) - TextLen(system_prompt(hint, <<>>))
    IN  IF frame = 0 THEN <<>>
        ELSE Slice(Drop(prompt, TextLen(prompt_head(hint)) + TextLen(RagOpen)),
                   frame - TextLen(RagOpen) - TextLen(RagClose))

\* C13: braces in the retrieved knowledge and in the schema description are
\* neutralised before they enter the prompt template: for every knowledge text
\* the template is built without error, has no replacement field of its own,
\* and the knowledge comes out of the template as it went in.
C13_BracesNeutralized ==
    (pc # "start" /\ message # "") =>
        /\ chat_prompt(routing, medical_context).ok
        /\ chat_prompt(routing, medical_context).nvars = 0
        /\ FormatLiteral(Normalize(KnowledgeInPayload(routing, medical_context)))
               = Normalize(KnowledgeInPayload(routing, medical_context))


\* ResponseSchema with the list lengths its field descriptions ask for: every
\* field is there, 1 to 3 departments, 3 or more actions, 2 or more precautions
SchemaHolds(obj) ==
    /\ \A f \in DOMAIN obj : obj[f].present
    /\ Len(obj.departments.v) \in 1..3
    /\ Len(obj.immediate_actions.v) >= 3
    /\ Len(obj.precautions.v) >= 2

\* C14: an oracle output that parses but violates the schema is rejected and
\* the request is answered by the fallback path; it is never rendered and
\* returned as the result.
C14_SchemaViolationRejected ==
    (pc = "done" /\ message # "" /\ chain_result.kind = "object"
        /\ ~SchemaHolds(chain_result.obj)) =>
            /\ path = "fallback"
            /\ ret = FallbackReturn(routing, medical_context)


\* C15: the fallback result is a function of the router's hint alone: a request
\* answered by the fallback path returns the display text, urgency_level and
\* departments that any other retrieval result would have given with the same
\* hint.
C15_FallbackDependsOnHintOnly ==
    (pc = "done" /\ message # "" /\ path = "fallback") =>
        \A ctx \in KnowledgeTexts : FallbackReturn(routing, ctx) = ret


(***************************************************************************)
(* Properties of building the index.                                       *)
(***************************************************************************)
\* C16: build is idempotent for an unchanged corpus: a forced rebuild that runs
\* alone over a persisted store holding each chunk of the same documents once
\* leaves the store with the same entries, none of them stored twice.
C16_BuildIdempotent ==
    [][\A c \in Callers :
          (/\ tpc[c] = "i_create"
           /\ tpc'[c] = "i_assign"
           /\ tforce[c]
           /\ \A o \in Callers \ {c} : tpc[o] = "idle"
           /\ collection = [d \in Documents |-> IF d \in tdocs[c] THEN 1 ELSE 0])
          => collection' = collection]_vars


(***************************************************************************)
(* Properties of the fallback result and of rendering.                     *)
(***************************************************************************)
\* does the display text have this line?
HasLine(text, line) == \E i \in 1..Len(text) : text[i] = line

\* C17: on the fallback path the returned urgency_level is the hint's tier
\* mapped one-to-one onto the three output tiers, the returned departments are
\* exactly [hint.primary_department], and the display text carries the hint's
\* label, reason and action.
C17_FallbackFollowsHint ==
    (pc = "done" /\ path = "fallback") =>
        /\ routing.urgency.level = "emergency" => ret.urgency_level = "eunggeupsil"
        /\ routing.urgency.level = "urgent" => ret.urgency_level = "oeraejinryo"
        /\ routing.urgency.level = "observation" => ret.urgency_level = "jagagwanchal"
        /\ ret.urgency_level \in Tiers
        /\ ret.departments = <<routing.primary_department>>
        /\ \E i \in 1..Len(ret.response) :
            /\ Len(ret.response[i]) = 3
            /\ ret.response[i][1] = "urgency"
            /\ ret.response[i][3] = routing.urgency.label
        /\ HasLine(ret.response, <<"sub", routing.urgency.reason>>)
        /\ HasLine(ret.response, <<"bullet", routing.urgency.action>>)

\* an urgent hint with a label of its own, answered by the fallback path after
\* the oracle's output could not be parsed
C17_Witness ==
    /\ pc = "done"
    /\ path = "fallback"
    /\ chain_result.kind = "malformed"
    /\ routing.urgency.level = "urgent"
    /\ routing.urgency.label = "hint_label"
    /\ ret.urgency_level = "oeraejinryo"
    /\ ret.departments = <<routing.primary_department>>


\* C18: the fallback output is schema-valid for every hint and every retrieval
\* result: its text lists at least 3 immediate actions and exactly 2
\* precautions, and it names exactly one department.
C18_FallbackSchemaValid ==
    (pc = "done" /\ message # "" /\ path = "fallback") =>
        /\ SectionSize(ret.response, "actions_header") >= 3
        /\ SectionSize(ret.response, "precautions_header") = 2
        /\ Len(ret.departments) = 1


\* C19: format_response emits its sections in one fixed order for every result
\* it renders: friendly message, urgency line with tier and reason,
\* recommended departments, immediate actions, precautions, and the disclaimer
\* as the last line; every one of these sections is there, and the text is
\* the one the renderer gives for that result.
C19_RenderFixedSections ==
    (pc = "done" /\ message # "" /\ path = "success") =>
        LET text == ret.response
            d == HeaderAt(text, "departments_header")
            a == HeaderAt(text, "actions_header")
            p == HeaderAt(text, "precautions_header")
        IN  /\ text = format_response(chain_result.obj)
            /\ Len(text[1]) = 1
            /\ text[3][1] = "urgency"
            /\ text[3][3] = ret.urgency_level
            /\ text[4][1] = "sub"
            /\ 4 < d /\ d < a /\ a < p /\ p < Len(text)
            /\ text[Len(text)] = Disclaimer


\* C20 as stated: the knowledge inside the prompt is a prefix of the retrieved
\* text of at most 1500 characters, and retrieved knowledge, when there is
\* any, is in the prompt.
C20_KnowledgeIncludedWhenAny ==
    pc # "start" =>
        LET k == KnowledgeInPayload(routing, medical_context)
        IN  /\ TextLen(k) <= KnowledgeBudget
            /\ Normalize(k) = Normalize(Slice(medical_context, TextLen(k)))
            /\ TextLen(medical_context) > 0 => TextLen(k) > 0

\* C20 as amended: the knowledge inside the system prompt text is a prefix of
\* the retrieved text of at most 1500 characters; it is the first 1500
\* characters (or the whole text when shorter) when the retrieved text is
\* longer than 100 characters, and nothing otherwise.
C20_KnowledgeWithinBudget ==
    pc # "start" =>
        LET k == KnowledgeInPayload(routing, medical_context)
            n == TextLen(medical_context)
        IN  /\ TextLen(k) <= KnowledgeBudget
            /\ Normalize(k) = Normalize(Slice(medical_context, TextLen(k)))
            /\ n > ContextThreshold =>
                    TextLen(k) = (IF n < KnowledgeBudget THEN n ELSE KnowledgeBudget)
            /\ n <= ContextThreshold => k = <<>>

\* a request whose retrieved text is longer than the budget: the prompt carries
\* its first 1500 characters
C20_Witness ==
    /\ pc = "awaiting"
    /\ TextLen(medical_context) > KnowledgeBudget
    /\ TextLen(KnowledgeInPayload(routing, medical_context)) = KnowledgeBudget


(***************************************************************************)
(* Properties of the singleton under sequential calls.                     *)
(***************************************************************************)
\* C21: over a sequential series of initialize_rag_system and get_rag_system
\* calls the process holds at most one RAGSystem: once created, the instance
\* stays the published one until the process ends, every call that returns
\* returns it, and get_rag_system goes into initialize_rag_system exactly when
\* no instance exists, so an instance with an empty index is not rebuilt by it.
C21_OneInstanceSequentially ==
    [][/\ n_created' <= 1
       /\ (rag_instance # 0 /\ rag_instance' # rag_instance) =>
              (rag_instance' = 0 /\ n_created' = 0)
       /\ \A c \in Callers :
            /\ (tpc[c] = "g_check" /\ tpc'[c] # "g_check") =>
                  (tpc'[c] = "i_check" <=> rag_instance = 0)
            /\ (tpc[c] = "g_check" /\ tpc'[c] # "g_check" /\ rag_instance # 0) =>
                  /\ tpc'[c] = "g_ret"
                  /\ vectorstore' = vectorstore
                  /\ collection' = collection
            /\ (tpc[c] # "done" /\ tpc'[c] = "done"
                    /\ top[c] \in {"initialize", "get"} /\ tres'[c].status = "ok") =>
                  rag_instance' = 1]_vars

\* get_rag_system has returned the one instance, whose index is empty although
\* the corpus now holds a readable document: nothing was loaded or built
C21_Witness ==
    \E c \in Callers :
        /\ top[c] = "get"
        /\ tpc[c] = "done"
        /\ tres[c].status = "ok"
        /\ n_created = 1
        /\ rag_instance = 1
        /\ vectorstore[rag_instance] = 0
        /\ corpus \ {"broken"} # {}
        /\ ~dir_exists
        /\ n_builds = 0


====
